---- MODULE Spec2Model ----
(***************************************************************************)
(* Model of src/app.py: a Flask application with a User table (SQLAlchemy  *)
(* over SQLite), registration, login, a protected dashboard and logout.    *)
(*                                                                         *)
(* State of the program: the rows of the User table.  The Flask session    *)
(* is a cookie signed with app.secret_key: it is kept by the client, sent  *)
(* with each request and replaced by the Set-Cookie of the response.  One  *)
(* request runs per client at a time; requests of different clients        *)
(* interleave, and a POST /register is two steps (the SELECT of line 69    *)
(* and the commit of line 80) between which other requests may run.        *)
(*                                                                         *)
(* Not modelled: CSRF token verification (every POST is taken to carry a   *)
(* valid token), a form without the 'username' or 'password' field (400),  *)
(* the '_flashes' key of the session (the flashed message is recorded in   *)
(* the response instead), and failures of read queries.                    *)
(***************************************************************************)
EXTENDS Integers, FiniteSets, Sequences, TLC

\* ---------------------------------------------------------------- bounds
MaxPasswords == 2
MaxSalts == 2

Clients == {1, 2}

\* The form's username strings; the form may submit the empty string.
Usernames == {"", "alice"}

\* The form's password strings.
PasswordList == <<"secret1", "wrong", "hunter2", "pass4">>
Passwords == {PasswordList[i] : i \in 1..MaxPasswords}

\* Values of the random salt that generate_password_hash draws.
SaltList == <<"salt1", "salt2", "salt3", "salt4">>
Salts == {SaltList[i] : i \in 1..MaxSalts}

\* ------------------------------------------------------------- constants
\* 'user' not in session: the session cookie has no 'user' key.
NoUser == "<no user>"
NoFlash == "<no flash>"
NoValue == "<none>"

FlashTaken == "Username already taken. Please choose another."
FlashRegistered == "Registration successful! You can now log in."
FlashInvalid == "Invalid username or password."
FlashLoggedOut == "You have been logged out."

VARIABLES
    users,      \* rows of the User table: [id, username, password]
    session,    \* session[c]: session['user'] in client c's cookie, or NoUser
    pc,         \* pc[c]: "idle", or "commit" inside register after the lookup of line 69
    form,       \* form[c]: request.form of client c's register request in progress
    resp,       \* the last completed request: its client and the response r
    registered, \* the <<username, password>> pairs register reported success for
    saved       \* saved[c]: a copy of a session cookie that client c keeps

vars == <<users, session, pc, form, resp, registered, saved>>

\* ------------------------------------------------------------- responses
\* redirect(url_for(target)), after flash(msg) if any
redirect(op, target, msg) ==
    [op |-> op, status |-> 302, location |-> target, view |-> NoValue,
     username |-> NoUser, flash |-> msg, exc |-> NoValue]

\* render_template(view, username=u)
render_template(op, view, u) ==
    [op |-> op, status |-> 200, location |-> NoValue, view |-> view,
     username |-> u, flash |-> NoFlash, exc |-> NoValue]

\* an exception escapes the view: the 500 handler renders 500.html
internal_error(op, e) ==
    [op |-> op, status |-> 500, location |-> NoValue, view |-> "500.html",
     username |-> NoUser, flash |-> NoFlash, exc |-> e]

NoResponse ==
    [op |-> NoValue, status |-> 0, location |-> NoValue, view |-> NoValue,
     username |-> NoUser, flash |-> NoFlash, exc |-> NoValue]

NoForm == [username |-> NoValue, password |-> NoValue]

\* ---------------------------------------------------------------- hashing
\* PBKDF2-HMAC-SHA256 of the password under the salt, as an ideal one-way
\* function: different (salt, password) pairs give different digests.
pbkdf2 (salt, password) == <<"pbkdf2:sha256", salt, password>>

\* The salt generate_password_hash draws: 16 characters chosen at random.
\* Two draws are taken never to give the same string (62^16 values), so the
\* salt of a new hash is any value that no stored hash carries.
gen_salt(table) == Salts \ {r.password.salt : r \in table}

\* A hash that leaves the salt out.
generate_password_hash_unsalted(password, salt) ==
    [salt |-> "", digest |-> pbkdf2("", password)]

\* generate_password_hash(password, method='pbkdf2:sha256', salt_length=16)
\* with the salt it drew: the encoding carries the salt and the digest.
generate_password_hash(password, salt) ==
    [salt |-> salt, digest |-> pbkdf2(salt, password)]

\* A comparison of the stored digest with the plaintext itself.
check_password_hash_plain(pwhash, password) ==
    pwhash.digest = password

\* A verification that accepts every password.
check_password_hash_any(pwhash, password) == TRUE

\* check_password_hash(pwhash, password): recompute under the embedded salt.
check_password_hash(pwhash, password) ==
    pbkdf2(pwhash.salt, password) = pwhash.digest

\* ------------------------------------------------------------------ store
\* A lookup that never finds a row.
filter_by_none(table, username) == {}

\* User.query.filter_by(username=username): exact, case-sensitive match.
filter_by(table, username) == {r \in table : r.username = username}

\* .first(): the row, or None (here: the set of at most one row)
first(rows) == IF rows = {} THEN {} ELSE {CHOOSE r \in rows : TRUE}

\* The UNIQUE constraint of User.username, not enforced.
UniqueViolation_off(table, username) == FALSE

\* unique=True on User.username: the INSERT of a second row with the same
\* username fails (sqlite3 IntegrityError).
UniqueViolation(table, username) == \E r \in table : r.username = username

\* An id that counts the rows from 0: the second row gets the first row's id.
NextId_count(table) == IF table = {} THEN 1 ELSE Cardinality(table)

\* id = db.Column(db.Integer, primary_key=True): SQLite assigns max(id)+1.
NextId(table) ==
    IF table = {} THEN 1
    ELSE 1 + (CHOOSE m \in {r.id : r \in table} : \A r \in table : r.id <= m)

TypeOK ==
    /\ \A r \in users : r.id \in 1..(Cardinality(users) + 1) /\ r.username \in Usernames
    /\ session \in [Clients -> Usernames \cup {NoUser}]
    /\ pc \in [Clients -> {"idle", "commit"}]
    /\ registered \subseteq Usernames \X Passwords
    /\ saved \in [Clients -> Usernames \cup {NoUser}]

Init ==
    /\ users = {}
    /\ session = [c \in Clients |-> NoUser]
    /\ pc = [c \in Clients |-> "idle"]
    /\ form = [c \in Clients |-> NoForm]
    /\ resp = [client |-> 0, r |-> NoResponse]
    /\ registered = {}
    /\ saved = [c \in Clients |-> NoUser]

\* ------------------------------------------------------------- operations
\* GET / : home() renders the login form.
home(c) ==
    /\ pc[c] = "idle"
    /\ resp' = [client |-> c, r |-> render_template("home", "login.html", NoUser)]
    /\ UNCHANGED <<users, session, pc, form, registered, saved>>

\* GET /register : register() renders the registration form.
register_get(c) ==
    /\ pc[c] = "idle"
    /\ resp' = [client |-> c, r |-> render_template("register", "register.html", NoUser)]
    /\ UNCHANGED <<users, session, pc, form, registered, saved>>

\* POST /register, lines 65-72: the form, the lookup, and the duplicate
\* outcome if a row was found.  Otherwise the request goes on to lines 74-83.
register(c, username, password) ==
    /\ pc[c] = "idle"
    /\ LET existing_user == first(filter_by(users, username))
       IN IF existing_user # {}
          THEN /\ resp' = [client |-> c, r |-> redirect("register", "register", FlashTaken)]
               /\ UNCHANGED <<pc, form>>
          ELSE /\ form' = [form EXCEPT ![c] = [username |-> username, password |-> password]]
               /\ pc' = [pc EXCEPT ![c] = "commit"]
               /\ UNCHANGED resp
    /\ UNCHANGED <<users, session, registered, saved>>

\* A register that also logs the new user in.
register_commit_autologin(c) ==
    /\ pc[c] = "commit"
    /\ pc' = [pc EXCEPT ![c] = "idle"]
    /\ form' = [form EXCEPT ![c] = NoForm]
    /\ IF UniqueViolation(users, form[c].username)
       THEN /\ resp' = [client |-> c, r |-> internal_error("register", "IntegrityError")]
            /\ UNCHANGED <<users, registered, session>>
       ELSE /\ \E salt \in gen_salt(users) :
                users' = users \cup
                    {[id |-> NextId(users), username |-> form[c].username,
                      password |-> generate_password_hash(form[c].password, salt)]}
            /\ registered' = registered \cup {<<form[c].username, form[c].password>>}
            /\ session' = [session EXCEPT ![c] = form[c].username]
            /\ resp' = [client |-> c, r |-> redirect("register", "home", FlashRegistered)]
    /\ UNCHANGED saved

\* POST /register, lines 74-83: the hashing under a salt drawn at random
\* (local to the request, so taken together with the store step), the INSERT
\* at db.session.commit() and the success outcome; an IntegrityError of the
\* INSERT escapes the view (500).
register_commit(c) ==
    /\ pc[c] = "commit"
    /\ pc' = [pc EXCEPT ![c] = "idle"]
    /\ form' = [form EXCEPT ![c] = NoForm]
    /\ IF UniqueViolation(users, form[c].username)
       THEN /\ resp' = [client |-> c, r |-> internal_error("register", "IntegrityError")]
            /\ UNCHANGED <<users, registered>>
       ELSE /\ \E salt \in gen_salt(users) :
                LET hashed_password == generate_password_hash(form[c].password, salt)
                    new_user == [id |-> NextId(users),
                                 username |-> form[c].username,
                                 password |-> hashed_password]
                IN users' = users \cup {new_user}
            /\ registered' = registered \cup {<<form[c].username, form[c].password>>}
            /\ resp' = [client |-> c, r |-> redirect("register", "home", FlashRegistered)]
    /\ UNCHANGED <<session, saved>>

\* A commit failure that is caught and ignored: the view goes on to line 82.
register_commit_swallowed(c) ==
    /\ pc[c] = "commit"
    /\ pc' = [pc EXCEPT ![c] = "idle"]
    /\ form' = [form EXCEPT ![c] = NoForm]
    /\ resp' = [client |-> c, r |-> redirect("register", "home", FlashRegistered)]
    /\ UNCHANGED <<users, session, registered, saved>>

\* POST /register, line 80 when the backing store cannot write (database
\* locked or unreachable): OperationalError escapes the view (500).
register_commit_fails(c) ==
    /\ pc[c] = "commit"
    /\ pc' = [pc EXCEPT ![c] = "idle"]
    /\ form' = [form EXCEPT ![c] = NoForm]
    /\ resp' = [client |-> c, r |-> internal_error("register", "OperationalError")]
    /\ UNCHANGED <<users, session, registered, saved>>

\* A failed login that also drops the session.
login_outcome_clear(table, ck, username, password) ==
    LET user == first(filter_by(table, username))
    IN IF user # {} /\ \E u \in user : check_password_hash(u.password, password)
       THEN [resp |-> redirect("login", "dashboard", NoFlash),
             session |-> (CHOOSE u \in user : TRUE).username]
       ELSE [resp |-> redirect("login", "home", FlashInvalid), session |-> NoUser]

\* A login that reports an unknown username with a message of its own.
login_outcome_enum(table, ck, username, password) ==
    LET user == first(filter_by(table, username))
    IN IF user = {}
       THEN [resp |-> redirect("login", "home", "Unknown username."), session |-> ck]
       ELSE IF \E u \in user : check_password_hash(u.password, password)
       THEN [resp |-> redirect("login", "dashboard", NoFlash),
             session |-> (CHOOSE u \in user : TRUE).username]
       ELSE [resp |-> redirect("login", "home", FlashInvalid), session |-> ck]

\* A login that writes session['user'] from the form before the check.
login_outcome_early(table, ck, username, password) ==
    LET user == first(filter_by(table, username))
    IN IF user # {} /\ \E u \in user : check_password_hash(u.password, password)
       THEN [resp |-> redirect("login", "dashboard", NoFlash), session |-> username]
       ELSE [resp |-> redirect("login", "home", FlashInvalid), session |-> username]

\* A login that keeps the username a session already holds.
login_outcome_sticky(table, ck, username, password) ==
    LET user == first(filter_by(table, username))
    IN IF user # {} /\ \E u \in user : check_password_hash(u.password, password)
       THEN [resp |-> redirect("login", "dashboard", NoFlash),
             session |-> IF ck = NoUser THEN (CHOOSE u \in user : TRUE).username ELSE ck]
       ELSE [resp |-> redirect("login", "home", FlashInvalid), session |-> ck]

\* POST /login with session cookie ck: the response and the session the
\* response's cookie carries.
login_outcome(table, ck, username, password) ==
    LET user == first(filter_by(table, username))
    IN IF user # {} /\ \E u \in user : check_password_hash(u.password, password)
       THEN [resp |-> redirect("login", "dashboard", NoFlash),
             session |-> (CHOOSE u \in user : TRUE).username]
       ELSE [resp |-> redirect("login", "home", FlashInvalid), session |-> ck]

\* A login that stores a new hash of the password on success.
login_rehash(c, ck, username, password) ==
    /\ pc[c] = "idle"
    /\ LET out == login_outcome(users, ck, username, password)
       IN /\ resp' = [client |-> c, r |-> out.resp]
          /\ session' = [session EXCEPT ![c] = out.session]
          /\ users' = IF out.resp.location = "dashboard"
                      THEN {[r EXCEPT !.password =
                                IF r.username = username
                                THEN generate_password_hash(password, "rehash")
                                ELSE r.password] : r \in users}
                      ELSE users
    /\ UNCHANGED <<pc, form, registered, saved>>

login(c, ck, username, password) ==
    /\ pc[c] = "idle"
    /\ LET out == login_outcome(users, ck, username, password)
       IN /\ resp' = [client |-> c, r |-> out.resp]
          /\ session' = [session EXCEPT ![c] = out.session]
    /\ UNCHANGED <<users, pc, form, registered, saved>>

\* A dashboard that renders whatever the session holds, without the check.
dashboard_outcome_open(ck) == render_template("dashboard", "dashboard.html", ck)

\* GET /dashboard with session cookie ck.
dashboard_outcome(ck) ==
    IF ck = NoUser
    THEN redirect("dashboard", "home", NoFlash)
    ELSE render_template("dashboard", "dashboard.html", ck)

\* The session is not modified: the response sets no cookie.
dashboard(c, ck) ==
    /\ pc[c] = "idle"
    /\ resp' = [client |-> c, r |-> dashboard_outcome(ck)]
    /\ UNCHANGED <<users, session, pc, form, registered, saved>>

\* session.pop('user') without the default: KeyError when the key is absent.
logout_outcome_strict(ck) ==
    IF ck = NoUser
    THEN [resp |-> internal_error("logout", "KeyError"), session |-> ck]
    ELSE [resp |-> redirect("logout", "home", FlashLoggedOut), session |-> NoUser]

\* A logout that answers without removing the key.
logout_outcome_keep(ck) ==
    [resp |-> redirect("logout", "home", FlashLoggedOut), session |-> ck]

\* POST /logout with session cookie ck: session.pop('user', None).
logout_outcome(ck) ==
    [resp |-> redirect("logout", "home", FlashLoggedOut), session |-> NoUser]

\* A logout that keeps the logged-in user in one place for all clients.
logout_all(c, ck) ==
    /\ pc[c] = "idle"
    /\ LET out == logout_outcome(ck)
       IN /\ resp' = [client |-> c, r |-> out.resp]
          /\ session' = [d \in Clients |-> out.session]
    /\ UNCHANGED <<users, pc, form, registered, saved>>

logout(c, ck) ==
    /\ pc[c] = "idle"
    /\ LET out == logout_outcome(ck)
       IN /\ resp' = [client |-> c, r |-> out.resp]
          /\ session' = [session EXCEPT ![c] = out.session]
    /\ UNCHANGED <<users, pc, form, registered, saved>>

\* The client keeps a copy of the cookie it holds.
save_cookie(c) ==
    /\ session[c] # NoUser
    /\ saved[c] # session[c]
    /\ saved' = [saved EXCEPT ![c] = session[c]]
    /\ UNCHANGED <<users, session, pc, form, resp, registered>>

\* ---------------------------------------------------------- specifications
\* Every request carries the cookie the last response set.
Next ==
    \/ \E c \in Clients : home(c)
    \/ \E c \in Clients : register_get(c)
    \/ \E c \in Clients, u \in Usernames, p \in Passwords : register(c, u, p)
    \/ \E c \in Clients : register_commit(c)
    \/ \E c \in Clients : register_commit_fails(c)
    \/ \E c \in Clients, u \in Usernames, p \in Passwords : login(c, session[c], u, p)
    \/ \E c \in Clients : dashboard(c, session[c])
    \/ \E c \in Clients : logout(c, session[c])

Spec == Init /\ [][Next]_vars

\* A client may also present a cookie it was issued earlier and kept: the
\* signature made with app.secret_key stays valid, the server keeps no
\* record of sessions.
NextReplay ==
    \/ Next
    \/ \E c \in Clients : save_cookie(c)
    \/ \E c \in Clients, u \in Usernames, p \in Passwords : login(c, saved[c], u, p)
    \/ \E c \in Clients : dashboard(c, saved[c])
    \/ \E c \in Clients : logout(c, saved[c])

SpecReplay == Init /\ [][NextReplay]_vars

\* ------------------------------------------------------------ the claims
Stored(username) == \E r \in users : r.username = username

InvalidCredentials == redirect("login", "home", FlashInvalid)
DuplicateUsername == redirect("register", "register", FlashTaken)

\* C1: in every reachable state no two rows of the User table have the same
\* username.
C1_UniqueUsernames ==
    \A r1 \in users, r2 \in users : r1.username = r2.username => r1 = r2

\* C1 witness: a racing second INSERT of a stored username was rejected.
C1_Witness == users # {} /\ resp.r.exc = "IntegrityError"

\* C2: a register that passed the uniqueness check and reaches its commit
\* (the store itself working) ends as it would have run after the other
\* registration: DuplicateUsername with the store unchanged if the username
\* has been stored meanwhile, success with one new row otherwise.
C2_AtomicCheckAndInsert ==
    [][\A c \in Clients :
        (pc[c] = "commit" /\ pc'[c] = "idle" /\ resp'.r.exc # "OperationalError")
        => IF Stored(form[c].username)
           THEN resp' = [client |-> c, r |-> DuplicateUsername] /\ users' = users
           ELSE /\ resp' = [client |-> c, r |-> redirect("register", "home", FlashRegistered)]
                /\ Cardinality(users') = Cardinality(users) + 1]_vars

\* C3: once register(u, p) has succeeded, every later login(u, p), by any
\* client, succeeds and binds that client's session to u.
C3_RegisterThenLogin ==
    [][\A c \in Clients, u \in Usernames, p \in Passwords :
        (login(c, session[c], u, p) /\ <<u, p>> \in registered)
        => (resp' = [client |-> c, r |-> redirect("login", "dashboard", NoFlash)]
            /\ session'[c] = u)]_vars

\* C3 witness: a login has succeeded for a registered pair, after requests
\* of another client.
C3_Witness ==
    /\ resp.r.op = "login" /\ resp.r.location = "dashboard"
    /\ \E p \in Passwords : <<session[resp.client], p>> \in registered
    /\ Cardinality(users) = 2

\* C4: a register request with a stored username, whatever the password, ends
\* with DuplicateUsername and leaves the whole table unchanged.
C4_DuplicateRejected ==
    [][\A c \in Clients, u \in Usernames, p \in Passwords :
        (register(c, u, p) /\ Stored(u))
        => (/\ resp' = [client |-> c, r |-> DuplicateUsername]
            /\ users' = users
            /\ pc'[c] = "idle")]_vars

\* C4 witness: a register request was answered 'Username already taken'.
C4_Witness == resp.r = DuplicateUsername /\ users # {}

\* C5: a login with a stored username and a password it was not registered
\* with, and a login with a username that is not stored, give the same
\* response and the same session, the InvalidCredentials outcome.
C5_NoEnumeration ==
    \A c \in Clients, u1 \in Usernames, u2 \in Usernames,
       p1 \in Passwords, p2 \in Passwords :
        (Stored(u1) /\ <<u1, p1>> \notin registered /\ ~Stored(u2))
        => LET wrong == login_outcome(users, session[c], u1, p1)
               unknown == login_outcome(users, session[c], u2, p2)
           IN wrong = unknown /\ wrong.resp = InvalidCredentials

\* C5 witness: a login failed while one username is stored and another is not.
C5_Witness ==
    /\ resp.r = InvalidCredentials
    /\ \E u1 \in Usernames, u2 \in Usernames : Stored(u1) /\ ~Stored(u2)

\* C6: a login that fails leaves the session of its client as it was.
C6_FailedLoginKeepsSession ==
    [][\A c \in Clients, u \in Usernames, p \in Passwords :
        (login(c, session[c], u, p) /\ resp'.r.location # "dashboard")
        => session'[c] = session[c]]_vars

\* C6 witness: a login failed on a session that is Authenticated.
C6_Witness == resp.r = InvalidCredentials /\ session[resp.client] # NoUser

\* C7: after a client's logout the dashboard is not rendered for that client
\* until its next successful login: whenever the dashboard has been rendered
\* for a client, that client's session holds an association.
C7_LogoutDestroysSession ==
    resp.r.view = "dashboard.html" => session[resp.client] # NoUser

\* C8: logout never fails and is idempotent: it answers with the logout
\* redirect and leaves the session Anonymous, also on an Anonymous session,
\* and a second logout gives the session of the first.
C8_LogoutIdempotent ==
    [][\A c \in Clients :
        logout(c, session[c])
        => (/\ resp' = [client |-> c, r |-> redirect("logout", "home", FlashLoggedOut)]
            /\ session'[c] = NoUser
            /\ logout_outcome(session'[c]).session = session'[c])]_vars

\* C8 witness: a logout was answered on a session that was never Authenticated.
C8_Witness == resp.r.op = "logout" /\ resp.r.status = 302 /\ users = {}

\* C9: the dashboard is rendered only for a session that has an association,
\* with that association's username; a dashboard request of an Anonymous
\* session is redirected to the login page.
C9_DashboardGated ==
    [][/\ (resp' # resp /\ resp'.r.view = "dashboard.html")
            => (/\ session[resp'.client] # NoUser
                /\ resp'.r.username = session[resp'.client])
       /\ \A c \in Clients :
            (dashboard(c, session[c]) /\ session[c] = NoUser)
            => resp' = [client |-> c, r |-> redirect("dashboard", "home", NoFlash)]]_vars

\* C9 witness: the dashboard has been rendered for an Authenticated session.
C9_Witness ==
    resp.r.view = "dashboard.html" /\ resp.r.username = session[resp.client]

\* C10: every session starts Anonymous; it becomes Authenticated(u) only by
\* a login with u and the password u was registered with, and Anonymous only
\* by logout.
C10_SessionTransitions ==
    /\ \A c \in Clients : session[c] = NoUser
    /\ [][\A c \in Clients :
            session'[c] # session[c]
            => IF session'[c] # NoUser
               THEN /\ \E p \in Passwords : login(c, session[c], session'[c], p)
                    /\ \A u \in Usernames, p \in Passwords :
                        login(c, session[c], u, p)
                        => (session'[c] = u /\ <<u, p>> \in registered)
               ELSE logout(c, session[c])]_vars

\* C10 witness: a client that is Authenticated has completed a register
\* request, and both usernames were logged in.
C10_Witness ==
    /\ resp.r.op = "register" /\ session[resp.client] # NoUser
    /\ \E c \in Clients : session[c] \notin {NoUser, session[resp.client]}

RegisterSuccess == redirect("register", "home", FlashRegistered)

\* C11: every row of the User table has a non-empty username.
C11_NonEmptyUsernames == \A r \in users : r.username # ""

\* C12: rows are never changed or removed: every row of a state is a row of
\* the next state, the table grows only by one row at a time and only in a
\* register that reports success, every register that reports success adds
\* one row, and no two rows share an id.
C12_RecordsImmutable ==
    [][/\ users \subseteq users'
       /\ users' # users
            => (/\ Cardinality(users') = Cardinality(users) + 1
                /\ resp'.r = RegisterSuccess)
       /\ \A c \in Clients :
            (pc[c] = "commit" /\ pc'[c] = "idle" /\ resp'.r = RegisterSuccess)
            => Cardinality(users') = Cardinality(users) + 1
       /\ \A r1 \in users', r2 \in users' : r1.id = r2.id => r1 = r2]_vars

\* C12 witness: a second row was added after the first, by another request.
C12_Witness ==
    /\ resp.r = RegisterSuccess
    /\ \E r1 \in users, r2 \in users : r1.id = 1 /\ r2.id = 2

\* C13: a step that changes the session of a client is the answer to a
\* request of that client, and changes the session of no other client.
C13_SessionPerClient ==
    [][\A c \in Clients :
        session'[c] # session[c]
        => (/\ resp'.client = c
            /\ \A d \in Clients \ {c} : session'[d] = session[d])]_vars

\* C13 witness: two clients are Authenticated, with different usernames.
C13_Witness ==
    \E c \in Clients, d \in Clients :
        /\ session[c] # NoUser /\ session[d] # NoUser
        /\ session[c] # session[d]

\* C14: a register that does not report success leaves the table as it was;
\* a register that reports success has added a row; a commit that fails ends
\* the request with the error response (500), and the request is over.
C14_NoPartialWrite ==
    [][\A c \in Clients :
        /\ (pc[c] = "commit" /\ pc'[c] = "idle")
            => (/\ ((resp'.r = RegisterSuccess) <=> (users' # users))
                /\ (resp'.r # RegisterSuccess)
                    => (users' = users /\ resp'.r.status = 500 /\ form'[c] = NoForm)
                /\ resp'.client = c)
        /\ (/\ pc[c] = "idle" /\ pc'[c] = "idle"
            /\ \E u \in Usernames, p \in Passwords : register(c, u, p))
            => (users' = users /\ resp' = [client |-> c, r |-> DuplicateUsername])]_vars

\* C14 witness: a commit failed in the store and the error page was the answer.
C14_Witness == resp.r.exc = "OperationalError" /\ resp.r.status = 500

C16_OnlyRegisterWrites ==
    [][/\ users' # users
            => \E c \in Clients :
                pc[c] = "commit" /\ pc'[c] = "idle" /\ resp'.r.op = "register"
       /\ \A c \in Clients :
            (\/ dashboard(c, session[c])
             \/ logout(c, session[c])
             \/ \E u \in Usernames, p \in Passwords : login(c, session[c], u, p))
            => users' = users]_vars

\* C16 witness: a login was answered with success while the table has rows.
C16_Witness ==
    resp.r = redirect("login", "dashboard", NoFlash) /\ Cardinality(users) = 1

\* C17: the session machine of a client has no terminal state.  In every
\* reachable state a request of the client can be answered: a register in
\* progress can complete, leaving rows in the table; an idle client that is
\* Authenticated can become Anonymous by logout; an idle client that is
\* Anonymous can become Authenticated by a login if the table has rows, and
\* can start a register if it has none.
C17_NoTerminalState ==
    \A c \in Clients :
        /\ pc[c] = "commit"
            => ENABLED (register_commit(c) /\ pc'[c] = "idle" /\ users' # {}
                        /\ session'[c] = session[c])
        /\ pc[c] = "idle"
            => /\ ENABLED (logout(c, session[c]) /\ session'[c] = NoUser)
               /\ users # {}
                    => \E u \in Usernames, p \in Passwords :
                        ENABLED (login(c, session[c], u, p) /\ session'[c] = u)
               /\ users = {}
                    => \E u \in Usernames, p \in Passwords :
                        ENABLED (register(c, u, p) /\ pc'[c] = "commit")

\* C17 witness: a client that is Authenticated has a register in progress
\* while the other client is Anonymous.
C17_Witness ==
    \E c \in Clients, d \in Clients :
        session[c] # NoUser /\ pc[c] = "commit" /\ session[d] = NoUser /\ pc[d] = "idle"

\* C18: a session that is Authenticated(u) is bound to a username u that has
\* a row in the table.
C18_SessionBoundToStoredUser ==
    \A c \in Clients : session[c] # NoUser => Stored(session[c])

\* C18 witness: a session is Authenticated while another username has no row.
C18_Witness ==
    /\ \E c \in Clients : session[c] # NoUser
    /\ \E u \in Usernames : ~Stored(u)

\* C19: a session holds at most one username, and a successful login as u on
\* a session that is Authenticated replaces the binding: afterwards the
\* session is bound to u and the dashboard renders u.
C19_ReloginReplaces ==
    [][\A c \in Clients, u \in Usernames, p \in Passwords :
        (/\ session[c] # NoUser
         /\ login(c, session[c], u, p)
         /\ resp'.r.location = "dashboard")
        => (/\ session'[c] = u
            /\ dashboard_outcome(session'[c])
                = render_template("dashboard", "dashboard.html", u))]_vars

\* C19 witness: a session is Authenticated as one username and a login with
\* the registered pair of another username can be answered on it.
C19_Witness ==
    \E c \in Clients, u \in Usernames, p \in Passwords :
        /\ session[c] \notin {NoUser, u}
        /\ <<u, p>> \in registered
        /\ ENABLED (login(c, session[c], u, p) /\ session'[c] = u)

\* C20: register, whether it succeeds or fails, leaves the session of the
\* requesting client (and of every client) as it was.
C20_RegisterKeepsSession ==
    [][\A c \in Clients :
        (\/ pc'[c] # pc[c]
         \/ resp'.r.op = "register" /\ resp'.client = c /\ resp' # resp)
        => session' = session]_vars

\* C20 witness: the second register succeeded and its client is still
\* Anonymous.
C20_Witness ==
    /\ resp.r = RegisterSuccess /\ session[resp.client] = NoUser
    /\ Cardinality(users) = 2

====
